---- MODULE Spec2Model ----
(***************************************************************************)
(* A model of gvfs' GMountSpec (common/gmountspec.c): the key/value store, *)
(* the process-wide table of unique specs, path matching, the D-Bus and    *)
(* the text codecs and the path canonicalizer.                             *)
(*                                                                         *)
(* C strings are sequences of byte values (97 is 'a', 47 is '/'); the      *)
(* terminating NUL is the byte 0 read one past the last element.           *)
(***************************************************************************)
EXTENDS Integers, Sequences, FiniteSets, TLC

VARIABLES
  heap,         \* the GMountSpec objects of the concurrent model, by address
  freed,        \* how often g_free (spec) has run, by address (2 for twice or more)
  dying,        \* addresses whose ref_count has reached zero at least once
  unique_hash,  \* the static table: NoTable before its creation, else a set of addresses
  lock,         \* G_LOCK (unique_hash): the thread holding it, or 0
  pc,           \* each thread's position
  arg,          \* each thread's `spec` argument
  unique_spec,  \* each thread's local unique_spec
  ret,          \* what each thread's last g_mount_spec_get_unique_for returned
  held,         \* the references each thread owns, per address
  a,            \* a GMountSpec value built through the public operations
  b,            \* a second one
  call          \* the last call of a pure function: its name, arguments and result

concVars == <<heap, freed, dying, unique_hash, lock, pc, arg, unique_spec, ret, held>>
valVars == <<a, b>>
vars == <<concVars, valVars, call>>

----------------------------------------------------------------------------
(* Bounds of the model *)

\* the longest path given to g_mount_spec_canonicalize_path and path_has_prefix
MaxPathLen == 5
\* the longest mount prefix given to path_has_prefix
MaxPrefixLen == 3
\* the most tokens a text given to g_mount_spec_new_from_string is made of
MaxTokens == 4
\* the most items g_mount_spec_set may grow a spec to
MaxItems == 2
\* the highest ref_count the threads of the model drive a spec to
MaxRef == 2
\* the GMountSpec objects of the concurrent model
NumSpecs == 3
\* its threads
NumThreads == 2
\* the longest array of entries in a message handed to g_mount_spec_from_dbus
MaxEntries == 3

----------------------------------------------------------------------------
(* C strings *)

\* the NULL pointer, where a char * may be NULL
NULL == <<-1>>

\* static GHashTable *unique_hash = NULL: the table that is not created yet,
\* a set that holds the null address and no spec
NoTable == {0}

\* the NULL pointer, where a GMountSpec * may be NULL
NoSpec == [null |-> TRUE]

\* "__mount_prefix"
MountPrefixKey == <<95, 95, 109, 111, 117, 110, 116, 95, 112, 114, 101, 102, 105, 120>>
\* "type"
TypeKey == <<116, 121, 112, 101>>
\* what printf's %s gives for a NULL argument with glibc: "(null)"
NullText == <<40, 110, 117, 108, 108, 41>>

\* s[i] in C: 0-based, the terminating NUL included
At(s, i) == IF i < Len(s) THEN s[i + 1] ELSE 0

\* the C string starting at s + i
From(s, i) == SubSeq(s, i + 1, Len(s))

\* memmove (s + p, s + q, strlen (s + q) + 1), as the string s then reads
memmove(s, p, q) == SubSeq(s, 1, p) \o From(s, q)

RECURSIVE strncmp_from(_, _, _, _)
strncmp_from(s1, s2, i, n) ==
  IF i >= n THEN 0
  ELSE IF At(s1, i) # At(s2, i) THEN (IF At(s1, i) < At(s2, i) THEN -1 ELSE 1)
  ELSE IF At(s1, i) = 0 THEN 0
  ELSE strncmp_from(s1, s2, i + 1, n)

\* strncmp: the sign of the first difference within n bytes, stopping at a NUL
strncmp(s1, s2, n) == strncmp_from(s1, s2, 0, n)

\* strcmp
strcmp(s1, s2) == strncmp_from(s1, s2, 0, Len(s1) + Len(s2) + 1)

\* A guint is 32 bits wide; it is kept as its two 16-bit halves <<high, low>>,
\* since the model checker's integers are themselves 32 bits wide.
RECURSIVE g_str_hash_from(_, _, _)
g_str_hash_from(s, i, h) ==
  IF i > Len(s) THEN h
  ELSE LET low == (h[2] * 33) + s[i]
           high == (h[1] * 33) + (low \div 65536)
       IN g_str_hash_from(s, i + 1, <<high % 65536, low % 65536>>)

\* GLib's g_str_hash (djb2): h = 5381; h = h * 33 + c, on a guint
g_str_hash(s) == g_str_hash_from(s, 1, <<0, 5381>>)

RECURSIVE xor_bits(_, _)
xor_bits(x, y) ==
  IF x = 0 THEN y
  ELSE IF y = 0 THEN x
  ELSE (((x % 2) + (y % 2)) % 2) + (2 * xor_bits(x \div 2, y \div 2))

\* hash ^= ..., on a guint
XOR(x, y) == <<xor_bits(x[1], y[1]), xor_bits(x[2], y[2])>>

----------------------------------------------------------------------------
(* The key/value store *)

Item(k, v) == [key |-> k, value |-> v]

\* item_compare
item_compare(ia, ib) == strcmp(ia.key, ib.key)

IsSorted(items) ==
  \A i \in 1..(Len(items) - 1) : item_compare(items[i], items[i + 1]) <= 0

\* g_array_sort (items, item_compare) is qsort: every arrangement of the
\* items that is ordered by key is a result it may give (ties in any order)
g_array_sort(items) ==
  IF Len(items) = 0 THEN {items}
  ELSE { s \in { [i \in 1..Len(items) |-> items[p[i]]] :
                   p \in Permutations(1..Len(items)) } : IsSorted(s) }

\* add_item
add_item(items, key, value) == Append(items, Item(key, value))

\* the first index whose key is `key`, or 0
RECURSIVE find_key(_, _, _)
find_key(items, key, i) ==
  IF i > Len(items) THEN 0
  ELSE IF strcmp(items[i].key, key) = 0 THEN i
  ELSE find_key(items, key, i + 1)

\* g_mount_spec_set_with_len with value_len -1, on the items: the results
\* it may leave (one, unless the sort has ties to order)
set_items(items, key, value) ==
  LET i == find_key(items, key, 1) IN
  IF i # 0 THEN {[items EXCEPT ![i].value = value]}
  ELSE g_array_sort(add_item(items, key, value))

\* a GMountSpec
MountSpec(items, mount_prefix) ==
  [ref_count |-> 1, items |-> items, mount_prefix |-> mount_prefix, is_unique |-> FALSE]

\* g_mount_spec_set
g_mount_spec_set(spec, key, value) ==
  { [spec EXCEPT !.items = its] : its \in set_items(spec.items, key, value) }

\* g_mount_spec_new (type): type may be NULL
g_mount_spec_new(type) ==
  LET spec == MountSpec(<<>>, <<47>>) IN
  IF type # NULL THEN g_mount_spec_set(spec, TypeKey, type) ELSE {spec}

\* g_mount_spec_new_from_data
g_mount_spec_new_from_data(items, mount_prefix) ==
  { MountSpec(its, IF mount_prefix = NULL THEN <<47>> ELSE mount_prefix) :
      its \in g_array_sort(items) }

\* g_mount_spec_set_mount_prefix
g_mount_spec_set_mount_prefix(spec, mount_prefix) ==
  [spec EXCEPT !.mount_prefix = mount_prefix]

RECURSIVE copy_items(_, _, _)
copy_items(copies, items, i) ==
  IF i > Len(items) THEN copies
  ELSE copy_items(UNION { g_mount_spec_set(c, items[i].key, items[i].value) : c \in copies },
                  items, i + 1)

\* g_mount_spec_copy
g_mount_spec_copy(spec) ==
  copy_items({ g_mount_spec_set_mount_prefix(c, spec.mount_prefix) : c \in g_mount_spec_new(NULL) },
             spec.items, 1)

\* items_equal
items_equal(ia, ib) ==
  /\ Len(ia) = Len(ib)
  /\ \A i \in 1..Len(ia) :
       /\ strcmp(ia[i].key, ib[i].key) = 0
       /\ strcmp(ia[i].value, ib[i].value) = 0

RECURSIVE hash_items(_, _, _)
hash_items(items, i, hash) ==
  IF i > Len(items) THEN hash
  ELSE hash_items(items, i + 1, XOR(hash, g_str_hash(items[i].value)))

\* g_mount_spec_hash
g_mount_spec_hash(mount) ==
  hash_items(mount.items, 1,
             IF mount.mount_prefix # NULL
               THEN XOR(<<0, 0>>, g_str_hash(mount.mount_prefix))
               ELSE <<0, 0>>)

\* g_mount_spec_equal, had it compared the items only
g_mount_spec_equal_items_only(mount1, mount2) == items_equal(mount1.items, mount2.items)

\* g_mount_spec_equal
g_mount_spec_equal(mount1, mount2) ==
  /\ items_equal(mount1.items, mount2.items)
  /\ \/ mount1.mount_prefix = NULL /\ mount2.mount_prefix = NULL
     \/ /\ mount1.mount_prefix # NULL
        /\ mount2.mount_prefix # NULL
        /\ strcmp(mount1.mount_prefix, mount2.mount_prefix) = 0

----------------------------------------------------------------------------
(* Path matching *)

\* path_has_prefix, had it left a trailing '/' of the prefix out of the comparison
path_has_prefix_trimmed(path, prefix) ==
  IF prefix = NULL THEN TRUE
  ELSE LET prefix_len == IF Len(prefix) > 0 /\ prefix[Len(prefix)] = 47
                           THEN Len(prefix) - 1 ELSE Len(prefix)
       IN /\ strncmp(path, prefix, prefix_len) = 0
          /\ \/ prefix_len = 0
             \/ At(path, prefix_len) = 0
             \/ At(path, prefix_len) = 47

\* path_has_prefix, had it compared the bytes only
path_has_prefix_unbounded(path, prefix) ==
  IF prefix = NULL THEN TRUE
  ELSE strncmp(path, prefix, Len(prefix)) = 0

\* path_has_prefix
path_has_prefix(path, prefix) ==
  IF prefix = NULL THEN TRUE
  ELSE LET prefix_len == Len(prefix) IN
       /\ strncmp(path, prefix, prefix_len) = 0
       /\ \/ prefix_len = 0
          \/ prefix[prefix_len] = 47
          \/ At(path, prefix_len) = 0
          \/ At(path, prefix_len) = 47

\* g_mount_spec_match_with_path
g_mount_spec_match_with_path(mount, spec, path) ==
  items_equal(mount.items, spec.items) /\ path_has_prefix(path, mount.mount_prefix)

----------------------------------------------------------------------------
(* The path canonicalizer: canon is the buffer, p an offset into it, start = 1 *)

\* the `.` branch: memmove (p, p+1, strlen (p+1)+1)
canon_dot(canon, p) == [canon |-> memmove(canon, p, p + 1), p |-> p]

\* while (p > start && *p != '/') p--;
RECURSIVE canon_back(_, _)
canon_back(canon, p) ==
  IF p > 1 /\ At(canon, p) # 47 THEN canon_back(canon, p - 1) ELSE p

\* the `..` branch
canon_dotdot(canon, p) ==
  LET q == p + 2
      p1 == IF p - 2 < 1 THEN 1 ELSE p - 2
      p2 == canon_back(canon, p1)
      p3 == IF At(canon, p2) = 47 THEN p2 + 1 ELSE p2
  IN [canon |-> memmove(canon, p3, q), p |-> p3]

\* while (*p != 0 && *p != '/') p++;
RECURSIVE canon_skip(_, _)
canon_skip(canon, p) ==
  IF At(canon, p) # 0 /\ At(canon, p) # 47 THEN canon_skip(canon, p + 1) ELSE p

\* the last branch: skip until the next separator and keep one separator
canon_segment(canon, p) ==
  LET p1 == canon_skip(canon, p) IN
  [canon |-> canon, p |-> IF At(canon, p1) # 0 THEN p1 + 1 ELSE p1]

\* q = p; while (*q && *q == '/') q++;
RECURSIVE canon_seps(_, _)
canon_seps(canon, q) ==
  IF At(canon, q) # 0 /\ At(canon, q) = 47 THEN canon_seps(canon, q + 1) ELSE q

\* "Remove additional separators"
canon_collapse(st) ==
  LET q == canon_seps(st.canon, st.p) IN
  IF st.p # q THEN [canon |-> memmove(st.canon, st.p, q), p |-> st.p] ELSE st

\* one turn of the while (*p != 0) loop
canon_step(canon, p) ==
  canon_collapse(
    IF At(canon, p) = 46 /\ (At(canon, p + 1) = 0 \/ At(canon, p + 1) = 47)
      THEN canon_dot(canon, p)
    ELSE IF At(canon, p) = 46 /\ At(canon, p + 1) = 46
            /\ (At(canon, p + 2) = 0 \/ At(canon, p + 2) = 47)
      THEN canon_dotdot(canon, p)
    ELSE canon_segment(canon, p))

RECURSIVE canon_loop(_, _)
canon_loop(canon, p) ==
  IF At(canon, p) # 0
    THEN LET st == canon_step(canon, p) IN canon_loop(st.canon, st.p)
  ELSE \* "Remove trailing slashes"
    IF p > 1 /\ At(canon, p - 1) = 47 THEN SubSeq(canon, 1, p - 1) ELSE canon

\* g_mount_spec_canonicalize_path
g_mount_spec_canonicalize_path(path) ==
  canon_loop(IF At(path, 0) # 47 THEN <<47>> \o path ELSE path, 1)

----------------------------------------------------------------------------
(* The text codec *)

\* what a call that may fail or leave the language's defined behaviour gives:
\* kind is "spec" (a GMountSpec is returned), "error" (NULL and a GError of
\* the code `code`, its message the format `message` filled with `culprit`)
\* or "undefined" (the call has undefined behaviour: it may do anything)
Returned(spec) == [kind |-> "spec", spec |-> spec, code |-> "", message |-> "", culprit |-> <<>>]
Failed(message, culprit) ==
  [kind |-> "error", spec |-> NoSpec, code |-> "G_IO_ERROR_INVALID_ARGUMENT",
   message |-> message, culprit |-> culprit]
Undefined == [kind |-> "undefined", spec |-> NoSpec, code |-> "", message |-> "", culprit |-> <<>>]

\* GLib's unreserved characters: ALPHA / DIGIT / "-" / "." / "_" / "~"
is_unreserved(c) ==
  \/ c \in 48..57
  \/ c \in 65..90
  \/ c \in 97..122
  \/ c \in {45, 46, 95, 126}

\* the upper-case hexadecimal digit of d
hex_digit(d) == IF d < 10 THEN 48 + d ELSE 55 + d

RECURSIVE escape_from(_, _)
escape_from(s, i) ==
  IF i > Len(s) THEN <<>>
  ELSE (IF is_unreserved(s[i]) THEN <<s[i]>>
        ELSE <<37, hex_digit(s[i] \div 16), hex_digit(s[i] % 16)>>) \o escape_from(s, i + 1)

\* GLib's g_uri_escape_string (unescaped, NULL, TRUE) on ASCII bytes; NULL
\* (after g_return_val_if_fail) for a NULL argument
g_uri_escape_string(s) == IF s = NULL THEN NULL ELSE escape_from(s, 1)

\* GLib's g_ascii_xdigit_value: -1 when c is no hexadecimal digit
g_ascii_xdigit_value(c) ==
  IF c \in 48..57 THEN c - 48
  ELSE IF c \in 65..70 THEN c - 55
  ELSE IF c \in 97..102 THEN c - 87
  ELSE -1

RECURSIVE unescape_from(_, _, _)
unescape_from(s, i, out) ==
  IF i >= Len(s) THEN out
  ELSE IF At(s, i) # 37 THEN unescape_from(s, i + 1, Append(out, At(s, i)))
  ELSE LET hi == g_ascii_xdigit_value(At(s, i + 1))
           lo == IF i + 2 < Len(s) THEN g_ascii_xdigit_value(At(s, i + 2)) ELSE -1
       IN IF hi < 0 \/ lo < 0 \/ (hi * 16) + lo = 0 THEN NULL
          ELSE unescape_from(s, i + 3, Append(out, (hi * 16) + lo))

\* GLib's g_uri_unescape_string (escaped, NULL): NULL for a NULL argument, for
\* a '%' not followed by two hexadecimal digits and for an escaped NUL
g_uri_unescape_string(s) == IF s = NULL THEN NULL ELSE unescape_from(s, 0, <<>>)

\* the index of the first `delimiter` of s at or after i, or 0
RECURSIVE index_of(_, _, _)
index_of(s, delimiter, i) ==
  IF i > Len(s) THEN 0
  ELSE IF s[i] = delimiter THEN i
  ELSE index_of(s, delimiter, i + 1)

RECURSIVE strsplit_rest(_, _)
strsplit_rest(s, delimiter) ==
  LET i == index_of(s, delimiter, 1) IN
  IF i = 0 THEN <<s>>
  ELSE <<SubSeq(s, 1, i - 1)>> \o strsplit_rest(SubSeq(s, i + 1, Len(s)), delimiter)

\* GLib's g_strsplit (string, delimiter, 0) for a one-byte delimiter: the
\* empty vector for the empty string, else one more token than delimiters
g_strsplit(s, delimiter) == IF Len(s) = 0 THEN <<>> ELSE strsplit_rest(s, delimiter)

\* the loop of g_mount_spec_to_string, had it written keys and values unescaped
RECURSIVE to_string_items_unescaped(_, _)
to_string_items_unescaped(items, i) ==
  IF i > Len(items) THEN <<>>
  ELSE items[i].key \o <<61>> \o items[i].value \o <<44>>
       \o to_string_items_unescaped(items, i + 1)

\* the loop of g_mount_spec_to_string over the items
RECURSIVE to_string_items(_, _)
to_string_items(items, i) ==
  IF i > Len(items) THEN <<>>
  ELSE g_uri_escape_string(items[i].key) \o <<61>> \o g_uri_escape_string(items[i].value)
       \o <<44>> \o to_string_items(items, i + 1)

\* g_mount_spec_to_string of a non-NULL spec: the texts it may give. With a
\* NULL mount_prefix a NULL reaches printf's %s, which is undefined (glibc
\* prints "(null)")
g_mount_spec_to_string(spec) ==
  LET head == to_string_items(spec.items, 1) \o g_uri_escape_string(MountPrefixKey) \o <<61>>
      v == g_uri_escape_string(spec.mount_prefix)
  IN IF v = NULL THEN {[kind |-> "text", text |-> head \o NullText],
                       [kind |-> "undefined", text |-> <<>>]}
     ELSE {[kind |-> "text", text |-> head \o v]}

RECURSIVE from_string_pairs(_, _, _, _, _)
from_string_pairs(str, kv_pairs, i, items, mount_prefix) ==
  IF i > Len(kv_pairs)
    THEN IF mount_prefix = NULL
           THEN {Failed("Didn't find __mount_prefix while decoding '%s' GMountSpec", str)}
         ELSE { Returned(spec) : spec \in g_mount_spec_new_from_data(items, mount_prefix) }
  ELSE LET tokens == g_strsplit(kv_pairs[i], 61) IN
       IF Len(tokens) # 2
         THEN {Failed("Encountered invalid key/value pair '%s' while decoding GMountSpec",
                      kv_pairs[i])}
       ELSE LET key == g_uri_unescape_string(tokens[1])
                value == g_uri_unescape_string(tokens[2])
            IN IF key = NULL THEN {Undefined}  \* strcmp (NULL, "__mount_prefix")
               ELSE IF strcmp(key, MountPrefixKey) = 0
                 THEN from_string_pairs(str, kv_pairs, i + 1, items, value)
               ELSE from_string_pairs(str, kv_pairs, i + 1, Append(items, Item(key, value)),
                                      mount_prefix)

\* g_mount_spec_new_from_string: what it may return
g_mount_spec_new_from_string(str) ==
  from_string_pairs(str, g_strsplit(str, 44), 1, <<>>, NULL)

----------------------------------------------------------------------------
(* The D-Bus codec. A message is a sequence of elements; an element has a
   type t, for an array its element type et, and its content v. *)

DString(s) == [t |-> "DBUS_TYPE_STRING", et |-> "", v |-> s]
\* a C string goes over the wire as an array of bytes
DCString(s) == [t |-> "DBUS_TYPE_ARRAY", et |-> "DBUS_TYPE_BYTE", v |-> s]
DStruct(fields) == [t |-> "DBUS_TYPE_STRUCT", et |-> "", v |-> fields]
DArray(et, elements) == [t |-> "DBUS_TYPE_ARRAY", et |-> et, v |-> elements]

\* a DBusMessageIter: the elements it walks and its position among them
Iter(elements, pos) == [elements |-> elements, pos |-> pos]

dbus_message_iter_get_arg_type(iter) ==
  IF iter.pos <= Len(iter.elements) THEN iter.elements[iter.pos].t ELSE "DBUS_TYPE_INVALID"

dbus_message_iter_get_element_type(iter) == iter.elements[iter.pos].et

dbus_message_iter_recurse(iter) == Iter(iter.elements[iter.pos].v, 1)

dbus_message_iter_next(iter) == [iter EXCEPT !.pos = iter.pos + 1]

\* whether the element under iter has the type `type`, G_DBUS_TYPE_CSTRING
\* standing for an array of bytes
arg_has_type(iter, type) ==
  /\ iter.pos <= Len(iter.elements)
  /\ IF type = "G_DBUS_TYPE_CSTRING"
       THEN iter.elements[iter.pos].t = "DBUS_TYPE_ARRAY"
            /\ iter.elements[iter.pos].et = "DBUS_TYPE_BYTE"
       ELSE iter.elements[iter.pos].t = type

\* _g_dbus_message_iter_get_args (iter, NULL, types..., 0): reads one element
\* per type, in order; ok is FALSE when an element is missing or of another type
RECURSIVE get_args(_, _, _)
get_args(iter, types, values) ==
  IF Len(types) = 0 THEN [ok |-> TRUE, values |-> values, iter |-> iter]
  ELSE IF ~arg_has_type(iter, Head(types)) THEN [ok |-> FALSE, values |-> values, iter |-> iter]
  ELSE get_args(dbus_message_iter_next(iter), Tail(types),
                Append(values, iter.elements[iter.pos].v))

_g_dbus_message_iter_get_args(iter, types) == get_args(iter, types, <<>>)

\* the loop of g_mount_spec_from_dbus, had it stopped at the first entry
\* that _g_dbus_message_iter_get_args refuses
RECURSIVE from_dbus_items_strict(_, _)
from_dbus_items_strict(array_iter, items) ==
  IF dbus_message_iter_get_arg_type(array_iter) # "DBUS_TYPE_STRUCT" THEN items
  ELSE LET got == _g_dbus_message_iter_get_args(dbus_message_iter_recurse(array_iter),
                                                <<"DBUS_TYPE_STRING", "G_DBUS_TYPE_CSTRING">>)
       IN IF got.ok
            THEN from_dbus_items_strict(dbus_message_iter_next(array_iter),
                                        add_item(items, got.values[1], got.values[2]))
          ELSE items

\* the while loop of g_mount_spec_from_dbus over the array of entries
RECURSIVE from_dbus_items(_, _)
from_dbus_items(array_iter, items) ==
  IF dbus_message_iter_get_arg_type(array_iter) # "DBUS_TYPE_STRUCT" THEN items
  ELSE LET got == _g_dbus_message_iter_get_args(dbus_message_iter_recurse(array_iter),
                                                <<"DBUS_TYPE_STRING", "G_DBUS_TYPE_CSTRING">>)
       IN from_dbus_items(dbus_message_iter_next(array_iter),
                          IF got.ok THEN add_item(items, got.values[1], got.values[2])
                          ELSE items)

\* g_mount_spec_from_dbus: the results it may give, each the spec returned
\* (or NULL) and the iterator as the call leaves it
g_mount_spec_from_dbus(iter) ==
  IF dbus_message_iter_get_arg_type(iter) # "DBUS_TYPE_STRUCT"
    THEN {[spec |-> NoSpec, iter |-> iter]}
  ELSE LET got == _g_dbus_message_iter_get_args(dbus_message_iter_recurse(iter),
                                                <<"G_DBUS_TYPE_CSTRING">>)
           spec_iter == got.iter
       IN IF ~got.ok THEN {[spec |-> NoSpec, iter |-> iter]}
          ELSE IF \/ dbus_message_iter_get_arg_type(spec_iter) # "DBUS_TYPE_ARRAY"
                  \/ dbus_message_iter_get_element_type(spec_iter) # "DBUS_TYPE_STRUCT"
            THEN {[spec |-> NoSpec, iter |-> iter]}
          ELSE { [spec |-> MountSpec(its, got.values[1]), iter |-> dbus_message_iter_next(iter)] :
                   its \in g_array_sort(from_dbus_items(dbus_message_iter_recurse(spec_iter),
                                                        <<>>)) }

\* the loop of g_mount_spec_to_dbus_with_path, had it stopped one item early
RECURSIVE to_dbus_items_short(_, _)
to_dbus_items_short(items, i) ==
  IF i > Len(items) - 1 THEN <<>>
  ELSE <<DStruct(<<DString(items[i].key), DCString(items[i].value)>>)>>
       \o to_dbus_items_short(items, i + 1)

\* the loop of g_mount_spec_to_dbus_with_path over the items
RECURSIVE to_dbus_items(_, _)
to_dbus_items(items, i) ==
  IF i > Len(items) THEN <<>>
  ELSE <<DStruct(<<DString(items[i].key), DCString(items[i].value)>>)>>
       \o to_dbus_items(items, i + 1)

\* g_mount_spec_to_dbus_with_path: the elements after the struct is appended
g_mount_spec_to_dbus_with_path(elements, spec, path) ==
  Append(elements,
         DStruct(<<DCString(IF path # NULL THEN path ELSE <<>>),
                   DArray("DBUS_TYPE_STRUCT", to_dbus_items(spec.items, 1))>>))

\* g_mount_spec_to_dbus
g_mount_spec_to_dbus(elements, spec) ==
  g_mount_spec_to_dbus_with_path(elements, spec, spec.mount_prefix)

----------------------------------------------------------------------------
(* The inputs the calls are made with *)

\* the strings of at most n bytes of `alphabet`
RECURSIVE StringsUpTo(_, _)
StringsUpTo(alphabet, n) ==
  IF n = 0 THEN {<<>>}
  ELSE LET shorter == StringsUpTo(alphabet, n - 1) IN
       shorter \cup { Append(s, c) : s \in shorter, c \in alphabet }

\* the concatenations of at most n of `tokens`
RECURSIVE TextsUpTo(_, _)
TextsUpTo(tokens, n) ==
  IF n = 0 THEN {<<>>}
  ELSE LET shorter == TextsUpTo(tokens, n - 1) IN
       shorter \cup { s \o t : s \in shorter, t \in tokens }

\* "/foo", "/foo/", "/foo/bar", "/foobar"
PathFoo == <<47, 102, 111, 111>>
PathFooSlash == <<47, 102, 111, 111, 47>>
PathFooBar == <<47, 102, 111, 111, 47, 98, 97, 114>>
PathFoobar == <<47, 102, 111, 111, 98, 97, 114>>

\* "a/./b/../c", "/a//b///c/", "../../x"
CanonExample1 == <<97, 47, 46, 47, 98, 47, 46, 46, 47, 99>>
CanonExample2 == <<47, 97, 47, 47, 98, 47, 47, 47, 99, 47>>
CanonExample3 == <<46, 46, 47, 46, 46, 47, 120>>

\* the paths canonicalized: over '/', '.' and 'a', and the three examples
CanonPaths ==
  StringsUpTo({47, 46, 97}, MaxPathLen) \cup {CanonExample1, CanonExample2, CanonExample3}

\* the paths and prefixes matched: over '/', 'a' and 'b', and the examples
MatchPaths ==
  StringsUpTo({47, 97, 98}, MaxPathLen) \cup {PathFoo, PathFooBar, PathFoobar}
MatchPrefixes ==
  StringsUpTo({47, 97, 98}, MaxPrefixLen) \cup {PathFoo, PathFooSlash, NULL}

\* "type=ftp" and "badtoken,type=ftp,__mount_prefix=/"
TextNoPrefix == <<116, 121, 112, 101, 61, 102, 116, 112>>
TextBadToken ==
  <<98, 97, 100, 116, 111, 107, 101, 110, 44>> \o TextNoPrefix \o <<44>>
    \o MountPrefixKey \o <<61, 47>>

\* the texts decoded: made of "a", "=", ",", "%", "/", "%2F" and
\* "__mount_prefix", and the two examples
DecodedTexts ==
  TextsUpTo({<<97>>, <<61>>, <<44>>, <<37>>, <<47>>, MountPrefixKey}, MaxTokens)
    \cup {TextNoPrefix, TextBadToken,
          <<97, 61, 37, 50, 70, 44>> \o MountPrefixKey \o <<61, 37, 50, 70, 97>>}

\* the keys, values and prefixes the specs are built from: ",=" and
\* "__mount_prefix"; "" and "%/"; NULL, "", "/" and "/a"
KeyCommaEquals == <<44, 61>>
Keys == {KeyCommaEquals, MountPrefixKey}
Values == {<<>>, <<37, 47>>}
Prefixes == {NULL, <<>>, <<47>>, <<47, 97>>}

\* the item arrays handed to g_mount_spec_new_from_data: unsorted, and with
\* a key twice
DataItems ==
  { <<>>,
    <<Item(KeyCommaEquals, <<>>), Item(MountPrefixKey, <<37, 47>>)>>,
    <<Item(KeyCommaEquals, <<>>), Item(KeyCommaEquals, <<37, 47>>)>> }

\* the specs matched against each other
MatchSpecs ==
  { MountSpec(its, prefix) :
      its \in {<<>>, <<Item(<<97>>, <<>>)>>, <<Item(<<97>>, <<37, 47>>)>>,
               <<Item(<<44, 61>>, <<>>)>>},
      prefix \in {NULL, <<>>, <<47>>, <<47, 97>>, <<47, 97, 47>>, PathFoo, PathFooSlash} }

----------------------------------------------------------------------------
(* The calls of the pure functions: one call is made, and `call` holds it *)

NoCall == [op |-> "none"]

\* the concurrent model's variables where no thread runs
ConcIdle ==
  /\ heap = <<>>
  /\ freed = <<>>
  /\ dying = {}
  /\ unique_hash = NoTable
  /\ lock = 0
  /\ pc = <<>>
  /\ arg = <<>>
  /\ unique_spec = <<>>
  /\ ret = <<>>
  /\ held = <<>>

InitCalls ==
  /\ ConcIdle
  /\ a \in g_mount_spec_new(NULL)
  /\ b \in g_mount_spec_new(NULL)
  /\ call = NoCall

CallCanonicalizePath ==
  /\ call = NoCall
  /\ \E path \in CanonPaths :
       call' = [op |-> "g_mount_spec_canonicalize_path", path |-> path,
                result |-> g_mount_spec_canonicalize_path(path)]
  /\ UNCHANGED <<concVars, valVars>>

CallPathHasPrefix ==
  /\ call = NoCall
  /\ \E path \in MatchPaths, prefix \in MatchPrefixes :
       call' = [op |-> "path_has_prefix", path |-> path, prefix |-> prefix,
                result |-> path_has_prefix(path, prefix)]
  /\ UNCHANGED <<concVars, valVars>>

CallMatchWithPath ==
  /\ call = NoCall
  /\ \E mount \in MatchSpecs, spec \in MatchSpecs,
        path \in StringsUpTo({47, 97, 98}, MaxPrefixLen) \cup {PathFoo, PathFooBar, PathFoobar} :
       call' = [op |-> "g_mount_spec_match_with_path", mount |-> mount, spec |-> spec,
                path |-> path,
                result |-> g_mount_spec_match_with_path(mount, spec, path)]
  /\ UNCHANGED <<concVars, valVars>>

CallNewFromString ==
  /\ call = NoCall
  /\ \E str \in DecodedTexts :
       \E r \in g_mount_spec_new_from_string(str) :
         call' = [op |-> "g_mount_spec_new_from_string", str |-> str, result |-> r]
  /\ UNCHANGED <<concVars, valVars>>

\* the entries of a message's array: ("type", "ftp") and (",=", ""), an entry
\* whose key is a byte array, one whose value is a standard string and one
\* with no value
WireEntries ==
  { DStruct(<<DString(TypeKey), DCString(<<102, 116, 112>>)>>),
    DStruct(<<DString(KeyCommaEquals), DCString(<<>>)>>),
    DStruct(<<DCString(TypeKey), DCString(<<>>)>>),
    DStruct(<<DString(TypeKey), DString(<<>>)>>),
    DStruct(<<DString(TypeKey)>>) }

\* what stands where the path is expected: "/" as a C string and as a
\* standard string
WirePaths == { DCString(<<47>>), DString(<<47>>) }

\* what stands where the array of entries is expected: such arrays, an
\* array of bytes and a standard string
WireArrays ==
  { DArray("DBUS_TYPE_STRUCT", entries) : entries \in StringsUpTo(WireEntries, MaxEntries) }
    \cup { DCString(<<>>), DString(<<>>) }

\* the structs at the iterator: no field, the path only, the path and the array
WireStructs ==
  { DStruct(<<>>) }
    \cup { DStruct(<<path>>) : path \in WirePaths }
    \cup { DStruct(<<path, array>>) : path \in WirePaths, array \in WireArrays }

\* the iterators g_mount_spec_from_dbus is called with: at a struct that is
\* the first, the last or the only element, at an element that is no
\* struct, and at the end of the message
WireIters ==
  { Iter(<<s>>, 1) : s \in WireStructs }
    \cup { Iter(<<s, DString(<<>>)>>, 1) : s \in WireStructs }
    \cup { Iter(<<DString(<<>>), s>>, 2) : s \in WireStructs }
    \cup { Iter(<<DString(<<>>)>>, 1), Iter(<<DArray("DBUS_TYPE_STRUCT", <<>>)>>, 1),
            Iter(<<DString(<<>>)>>, 2) }

CallFromDbus ==
  /\ call = NoCall
  /\ \E iter \in WireIters :
       \E r \in g_mount_spec_from_dbus(iter) :
         call' = [op |-> "g_mount_spec_from_dbus", iter |-> iter,
                  result |-> r.spec, after |-> r.iter]
  /\ UNCHANGED <<concVars, valVars>>

NextCalls ==
  \/ CallCanonicalizePath
  \/ CallPathHasPrefix
  \/ CallMatchWithPath
  \/ CallNewFromString
  \/ CallFromDbus

SpecCalls == InitCalls /\ [][NextCalls]_vars

----------------------------------------------------------------------------
(* Claims about the pure functions, under SpecCalls *)

\* whether the bytes of `prefix` begin `path`
StartsWith(path, prefix) ==
  Len(path) >= Len(prefix) /\ SubSeq(path, 1, Len(prefix)) = prefix

\* C6, as stated: path_has_prefix ("/foo", "/foo/") is true
C6_FooUnderFooSlash ==
  (call.op = "path_has_prefix" /\ call.path = PathFoo /\ call.prefix = PathFooSlash)
    => call.result = TRUE

\* C6, amended: path_has_prefix ("/foo", "/foo/") is false; a prefix that
\* ends in '/' matches exactly the paths that begin with the whole prefix,
\* its trailing '/' included
C6_SlashPrefixNeedsSlash ==
  (call.op = "path_has_prefix" /\ call.prefix # NULL /\ Len(call.prefix) > 0
     /\ call.prefix[Len(call.prefix)] = 47)
    => /\ call.result = StartsWith(call.path, call.prefix)
       /\ (call.path = SubSeq(call.prefix, 1, Len(call.prefix) - 1) /\ Len(call.prefix) > 1)
            => call.result = FALSE

C6_Witness ==
  /\ call.op = "path_has_prefix"
  /\ call.path = PathFoo
  /\ call.prefix = PathFooSlash
  /\ call.result = FALSE

\* C7: g_mount_spec_match_with_path (mount, spec, path) is true iff the items
\* of the two specs are the same, item by item, and mount's prefix is NULL or
\* empty, or path begins with it and the prefix ends in '/', or path ends
\* there, or path goes on with '/'; spec's own prefix has no say
C7_MatchIff ==
  call.op = "g_mount_spec_match_with_path"
    => LET prefix == call.mount.mount_prefix
           path == call.path
       IN /\ call.result =
               (/\ call.mount.items = call.spec.items
                /\ \/ prefix = NULL
                   \/ prefix = <<>>
                   \/ /\ StartsWith(path, prefix)
                      /\ \/ prefix[Len(prefix)] = 47
                         \/ Len(path) = Len(prefix)
                         \/ path[Len(prefix) + 1] = 47)
          /\ \A other \in MatchPrefixes :
               g_mount_spec_match_with_path(
                 call.mount, g_mount_spec_set_mount_prefix(call.spec, other), path)
                 = call.result

C7_Witness ==
  /\ call.op = "g_mount_spec_match_with_path"
  /\ call.mount.mount_prefix = PathFoo
  /\ call.spec.mount_prefix = <<47, 97>>
  /\ Len(call.mount.items) = 1
  /\ call.path = PathFooBar
  /\ call.result = TRUE

\* the segments of a path evaluated left to right on a stack: '.' and empty
\* segments are dropped, '..' pops the previous segment or does nothing
RECURSIVE EvalSegments(_, _, _)
EvalSegments(segments, i, stack) ==
  IF i > Len(segments) THEN stack
  ELSE EvalSegments(segments, i + 1,
         IF segments[i] = <<>> \/ segments[i] = <<46>> THEN stack
         ELSE IF segments[i] = <<46, 46>>
           THEN (IF Len(stack) = 0 THEN stack ELSE SubSeq(stack, 1, Len(stack) - 1))
         ELSE Append(stack, segments[i]))

RECURSIVE JoinSegments(_, _)
JoinSegments(stack, i) ==
  IF i > Len(stack) THEN <<>>
  ELSE <<47>> \o stack[i] \o JoinSegments(stack, i + 1)

\* the lexical normal form of a path
NormalForm(path) ==
  LET stack == EvalSegments(g_strsplit(path, 47), 1, <<>>) IN
  IF Len(stack) = 0 THEN <<47>> ELSE JoinSegments(stack, 1)

\* C8, as stated: g_mount_spec_canonicalize_path returns the lexical normal
\* form: it starts with '/', has no '.' or '..' segment, no two '/' in a row
\* and no trailing '/' unless it is "/", and is what the evaluation of the
\* segments on a stack gives
C8_CanonicalIsNormalForm ==
  call.op = "g_mount_spec_canonicalize_path"
    => LET r == call.result
           segments == g_strsplit(SubSeq(r, 2, Len(r)), 47)
       IN /\ Len(r) >= 1 /\ r[1] = 47
          /\ \A i \in 1..Len(segments) : segments[i] \notin {<<>>, <<46>>, <<46, 46>>}
          /\ \A i \in 1..(Len(r) - 1) : ~(r[i] = 47 /\ r[i + 1] = 47)
          /\ r[Len(r)] = 47 => r = <<47>>
          /\ r = NormalForm(call.path)
          /\ call.path = CanonExample1 => r = <<47, 97, 47, 99>>
          /\ call.path = CanonExample2 => r = <<47, 97, 47, 98, 47, 99>>
          /\ call.path = CanonExample3 => r = <<47, 120>>

\* the number of '=' in a pair
RECURSIVE CountByte(_, _, _)
CountByte(s, c, i) ==
  IF i > Len(s) THEN 0
  ELSE (IF s[i] = c THEN 1 ELSE 0) + CountByte(s, c, i + 1)

\* the comma-separated pairs of a text
PairsOf(str) == g_strsplit(str, 44)

\* a pair that splits on '=' into exactly two tokens
WellFormedPair(pair) == CountByte(pair, 61, 1) = 1

\* the key of a well-formed pair, as written
KeyOf(pair) == SubSeq(pair, 1, index_of(pair, 61, 1) - 1)

\* C10, as stated: g_mount_spec_new_from_string returns a spec iff every pair
\* splits on '=' into exactly two tokens and some pair has the key
\* __mount_prefix; otherwise it returns an InvalidArgument error, naming the
\* first offending pair, or the input when only the prefix is missing; and
\* on success no item has the key __mount_prefix
C10_StrictDecode ==
  call.op = "g_mount_spec_new_from_string"
    => LET pairs == PairsOf(call.str)
           r == call.result
           bad == { i \in 1..Len(pairs) : ~WellFormedPair(pairs[i]) }
           has_prefix == \E i \in 1..Len(pairs) :
                           WellFormedPair(pairs[i]) /\ KeyOf(pairs[i]) = MountPrefixKey
       IN /\ r.kind \in {"spec", "error"}
          /\ r.kind = "spec" <=> (bad = {} /\ has_prefix)
          /\ r.kind = "error" => r.code = "G_IO_ERROR_INVALID_ARGUMENT"
          /\ (r.kind = "error" /\ bad # {})
               => r.culprit = pairs[CHOOSE i \in bad : \A j \in bad : i <= j]
          /\ (r.kind = "error" /\ bad = {}) => r.culprit = call.str
          /\ r.kind = "spec"
               => \A i \in 1..Len(r.spec.items) : r.spec.items[i].key # MountPrefixKey

\* the element under the iterator is a struct
AtStruct(iter) ==
  iter.pos <= Len(iter.elements) /\ iter.elements[iter.pos].t = "DBUS_TYPE_STRUCT"

\* the fields of that struct
FieldsAt(iter) == iter.elements[iter.pos].v

\* an element that is a C string on the wire
IsCString(e) == e.t = "DBUS_TYPE_ARRAY" /\ e.et = "DBUS_TYPE_BYTE"

\* the struct's first field is the path, a C string
HasPath(iter) == Len(FieldsAt(iter)) >= 1 /\ IsCString(FieldsAt(iter)[1])

\* the struct's second field is an array of structs
HasEntryArray(iter) ==
  /\ Len(FieldsAt(iter)) >= 2
  /\ FieldsAt(iter)[2].t = "DBUS_TYPE_ARRAY"
  /\ FieldsAt(iter)[2].et = "DBUS_TYPE_STRUCT"

\* an entry that holds a standard-string key and then a C-string value
WellFormedEntry(e) ==
  /\ e.t = "DBUS_TYPE_STRUCT"
  /\ Len(e.v) >= 2
  /\ e.v[1].t = "DBUS_TYPE_STRING"
  /\ IsCString(e.v[2])

\* how often x occurs in seq
Occurrences(seq, x) == Cardinality({ i \in 1..Len(seq) : seq[i] = x })

\* items holds exactly the well-formed entries of `entries`, each as often
\* as it occurs there, in the order of their keys
ItemsAreEntries(items, entries) ==
  LET good == SelectSeq(entries, WellFormedEntry) IN
  /\ Len(items) = Len(good)
  /\ \A i \in 1..Len(good) :
       LET it == Item(good[i].v[1].v, good[i].v[2].v) IN
       Occurrences(items, it)
         = Cardinality({ j \in 1..Len(good) :
                           good[j].v[1].v = it.key /\ good[j].v[2].v = it.value })
  /\ \A i \in 1..(Len(items) - 1) : strcmp(items[i].key, items[i + 1].key) <= 0

\* what C11 says of a call that succeeds
FromDbusSucceeds ==
  /\ call.result # NoSpec
  /\ ItemsAreEntries(call.result.items, FieldsAt(call.iter)[2].v)
  /\ call.after = [call.iter EXCEPT !.pos = @ + 1]

\* what C11 says of a call that fails
FromDbusFails == call.result = NoSpec /\ call.after = call.iter

\* C11, as stated: g_mount_spec_from_dbus returns NULL and leaves the
\* iterator where it was when the next element is not a struct or its second
\* field is not an array of structs; otherwise it returns a spec whose items
\* are exactly the well-formed entries, sorted by key, the malformed ones
\* skipped, and moves the iterator on by one element
C11_FromDbusTwoFailures ==
  call.op = "g_mount_spec_from_dbus"
    => IF ~AtStruct(call.iter) \/ ~HasEntryArray(call.iter)
         THEN FromDbusFails
       ELSE FromDbusSucceeds

\* C11, amended: the call also fails, the same way, when the struct's first
\* field is not a C string
C11_FromDbus ==
  call.op = "g_mount_spec_from_dbus"
    => IF ~AtStruct(call.iter) \/ ~HasPath(call.iter) \/ ~HasEntryArray(call.iter)
         THEN FromDbusFails
       ELSE FromDbusSucceeds

\* a call that returned a spec from an array where a malformed entry stands
\* before a well-formed one, which the spec holds
C11_Witness ==
  /\ call.op = "g_mount_spec_from_dbus"
  /\ call.result # NoSpec
  /\ LET entries == FieldsAt(call.iter)[2].v IN
     \E i, j \in 1..Len(entries) :
       /\ i < j
       /\ ~WellFormedEntry(entries[i])
       /\ WellFormedEntry(entries[j])
       /\ \E k \in 1..Len(call.result.items) :
            call.result.items[k] = Item(entries[j].v[1].v, entries[j].v[2].v)
  /\ call.after.pos = call.iter.pos + 1

----------------------------------------------------------------------------
(* A spec built and changed through the public operations: `a` is the spec,
   `b` the last spec derived from it (its copy, or what a codec's decoder
   made of its encoding), and `call` the last operation. *)

\* "ftp"
TypeFtp == <<102, 116, 112>>

\* texts decoded into `a`: "__mount_prefix=%2Fa" and
\* "%2C%3D=,%2C%3D=%25%2F,__mount_prefix="
ValueTexts ==
  { MountPrefixKey \o <<61, 37, 50, 70, 97>>,
    <<37, 50, 67, 37, 51, 68, 61, 44, 37, 50, 67, 37, 51, 68, 61, 37, 50, 53, 37, 50, 70, 44>>
      \o MountPrefixKey \o <<61>> }

\* messages decoded into `a`: the path "/a" with the items (",=", "%/"),
\* ("__mount_prefix", "") and the path "" with the items (",=", "%/"), (",=", "")
ValueMessages ==
  { <<DStruct(<<DCString(<<47, 97>>),
                DArray("DBUS_TYPE_STRUCT",
                       <<DStruct(<<DString(KeyCommaEquals), DCString(<<37, 47>>)>>),
                         DStruct(<<DString(MountPrefixKey), DCString(<<>>)>>)>>)>>)>>,
    <<DStruct(<<DCString(<<>>),
                DArray("DBUS_TYPE_STRUCT",
                       <<DStruct(<<DString(KeyCommaEquals), DCString(<<37, 47>>)>>),
                         DStruct(<<DString(KeyCommaEquals), DCString(<<>>)>>)>>)>>)>> }

HasKey(items, key) == find_key(items, key, 1) # 0

InitValue ==
  /\ ConcIdle
  /\ a \in g_mount_spec_new(NULL)
  /\ b \in g_mount_spec_new(NULL)
  /\ call = NoCall

ValNew ==
  /\ \E type \in {NULL, TypeFtp} : a' \in g_mount_spec_new(type)
  /\ b' = b
  /\ call' = [op |-> "g_mount_spec_new"]
  /\ UNCHANGED concVars

ValNewFromData ==
  /\ \E items \in DataItems, mount_prefix \in Prefixes :
       a' \in g_mount_spec_new_from_data(items, mount_prefix)
  /\ b' = b
  /\ call' = [op |-> "g_mount_spec_new_from_data"]
  /\ UNCHANGED concVars

ValFromString ==
  /\ \E str \in ValueTexts :
       \E r \in g_mount_spec_new_from_string(str) :
         r.kind = "spec" /\ a' = r.spec
  /\ b' = b
  /\ call' = [op |-> "g_mount_spec_new_from_string"]
  /\ UNCHANGED concVars

ValFromDbus ==
  /\ \E elements \in ValueMessages :
       \E r \in g_mount_spec_from_dbus(Iter(elements, 1)) :
         r.spec # NoSpec /\ a' = r.spec
  /\ b' = b
  /\ call' = [op |-> "g_mount_spec_from_dbus"]
  /\ UNCHANGED concVars

ValSet ==
  /\ \E key \in Keys, value \in Values :
       /\ Len(a.items) < MaxItems \/ HasKey(a.items, key)
       /\ a' \in g_mount_spec_set(a, key, value)
  /\ b' = b
  /\ call' = [op |-> "g_mount_spec_set"]
  /\ UNCHANGED concVars

ValSetMountPrefix ==
  /\ \E mount_prefix \in Prefixes :
       a' = g_mount_spec_set_mount_prefix(a, mount_prefix)
  /\ b' = b
  /\ call' = [op |-> "g_mount_spec_set_mount_prefix"]
  /\ UNCHANGED concVars

ValCopy ==
  /\ b' \in g_mount_spec_copy(a)
  /\ a' = a
  /\ call' = [op |-> "g_mount_spec_copy"]
  /\ UNCHANGED concVars

\* b = g_mount_spec_new_from_string (g_mount_spec_to_string (a), &error)
ValTextRoundTrip ==
  /\ \E t \in g_mount_spec_to_string(a) :
       \E r \in (IF t.kind = "undefined" THEN {Undefined}
                 ELSE g_mount_spec_new_from_string(t.text)) :
         /\ call' = [op |-> "text_round_trip", result |-> r]
         /\ b' = IF r.kind = "spec" THEN r.spec ELSE b
  /\ a' = a
  /\ UNCHANGED concVars

\* g_mount_spec_to_dbus (&iter, a) into an empty message, and
\* b = g_mount_spec_from_dbus (&iter) on that message
ValWireRoundTrip ==
  /\ \E r \in g_mount_spec_from_dbus(Iter(g_mount_spec_to_dbus(<<>>, a), 1)) :
       /\ call' = [op |-> "wire_round_trip", result |-> r.spec]
       /\ b' = IF r.spec # NoSpec THEN r.spec ELSE b
  /\ a' = a
  /\ UNCHANGED concVars

\* g_mount_spec_equal (a, b), g_mount_spec_hash (a) and g_mount_spec_hash (b)
ValCompare ==
  /\ call' = [op |-> "g_mount_spec_equal", equal |-> g_mount_spec_equal(a, b),
              hash_a |-> g_mount_spec_hash(a), hash_b |-> g_mount_spec_hash(b)]
  /\ UNCHANGED <<a, b>>
  /\ UNCHANGED concVars

NextValue ==
  \/ ValNew
  \/ ValNewFromData
  \/ ValFromString
  \/ ValFromDbus
  \/ ValSet
  \/ ValSetMountPrefix
  \/ ValCopy
  \/ ValTextRoundTrip
  \/ ValWireRoundTrip
  \/ ValCompare

SpecValue == InitValue /\ [][NextValue]_vars

----------------------------------------------------------------------------
(* Claims about the specs built through the public operations, under SpecValue *)

DistinctKeys(items) ==
  \A i \in 1..Len(items) : \A j \in 1..Len(items) :
    i # j => items[i].key # items[j].key

StrictlyIncreasingKeys(items) ==
  \A i \in 1..(Len(items) - 1) : strcmp(items[i].key, items[i + 1].key) < 0

SameSpec(s1, s2) ==
  /\ s1.items = s2.items
  /\ s1.mount_prefix = s2.mount_prefix
  /\ g_mount_spec_equal(s1, s2)

\* C3, as stated: for every spec S, g_mount_spec_new_from_string of
\* g_mount_spec_to_string (S) succeeds and gives a spec equal to S
C3_TextRoundTripAll ==
  call.op = "text_round_trip"
    => call.result.kind = "spec" /\ SameSpec(call.result.spec, a)

\* the specs the text round trip holds for
TextRoundTrips(spec) ==
  /\ spec.mount_prefix # NULL
  /\ ~HasKey(spec.items, MountPrefixKey)
  /\ DistinctKeys(spec.items)

\* C3, amended: for every spec S whose mount_prefix is not NULL and whose
\* items have pairwise distinct keys, none of them __mount_prefix,
\* g_mount_spec_new_from_string of g_mount_spec_to_string (S) succeeds and
\* gives a spec equal to S: the same items and the same mount_prefix
C3_TextRoundTrip ==
  (call.op = "text_round_trip" /\ TextRoundTrips(a))
    => call.result.kind = "spec" /\ SameSpec(call.result.spec, a)

C3_Witness ==
  /\ call.op = "text_round_trip"
  /\ TextRoundTrips(a)
  /\ Len(a.items) = 2
  /\ a.items[1].value = <<37, 47>>
  /\ a.mount_prefix = <<47, 97>>
  /\ call.result.kind = "spec"
  /\ b = call.result.spec

\* C4, as stated: for every spec S reachable through the public operations,
\* g_mount_spec_from_dbus of what g_mount_spec_to_dbus (S) wrote gives a spec
\* equal to S
C4_WireRoundTripAll ==
  call.op = "wire_round_trip"
    => call.result # NoSpec /\ SameSpec(call.result, a)

\* the specs the wire round trip holds for
WireRoundTrips(spec) ==
  /\ spec.mount_prefix # NULL
  /\ DistinctKeys(spec.items)

\* C4, amended: for every spec S reachable through the public operations
\* whose mount_prefix is not NULL and whose items have pairwise distinct
\* keys, g_mount_spec_from_dbus of what g_mount_spec_to_dbus (S) wrote gives
\* a spec equal to S: the same items and the same mount_prefix
C4_WireRoundTrip ==
  (call.op = "wire_round_trip" /\ WireRoundTrips(a))
    => call.result # NoSpec /\ SameSpec(call.result, a)

C4_Witness ==
  /\ call.op = "wire_round_trip"
  /\ WireRoundTrips(a)
  /\ Len(a.items) = 2
  /\ HasKey(a.items, MountPrefixKey)
  /\ a.mount_prefix = <<47, 97>>
  /\ b = call.result

\* C5, as stated: after any g_mount_spec_set on a spec obtained from any
\* constructor, the keys of the items are strictly increasing, byte-wise:
\* sorted, and no key twice
C5_SetKeepsKeysStrictlySorted ==
  call.op = "g_mount_spec_set" => StrictlyIncreasingKeys(a.items)

\* C9: g_mount_spec_equal (A, B) implies g_mount_spec_hash (A) ==
\* g_mount_spec_hash (B), equality being that of the items, one by one, and
\* of the mount_prefix (or both NULL)
C9_EqualImpliesSameHash ==
  call.op = "g_mount_spec_equal"
    => /\ call.equal = (a.items = b.items /\ a.mount_prefix = b.mount_prefix)
       /\ call.equal => call.hash_a = call.hash_b

C9_Witness ==
  /\ call.op = "g_mount_spec_equal"
  /\ call.equal
  /\ Len(a.items) = 2
  /\ a.mount_prefix = <<47, 97>>
  /\ call.hash_a = call.hash_b

----------------------------------------------------------------------------
(* The table of unique specs, its lock and the reference counts, with
   threads that call g_mount_spec_get_unique_for, g_mount_spec_ref and
   g_mount_spec_unref on the specs they own references to *)

Addrs == 1..NumSpecs
Threads == 1..NumThreads

\* what the specs of the concurrent model hold: type=ftp under "/" or "/a"
SpecContents ==
  { MountSpec(<<Item(TypeKey, TypeFtp)>>, <<47>>),
    MountSpec(<<Item(TypeKey, TypeFtp)>>, <<47, 97>>) }

\* g_hash_table_lookup, had the table compared the keys as pointers
g_hash_table_lookup_direct(table, objects, key) == { e \in table : e = key }

\* g_hash_table_lookup (unique_hash, spec) on a table made with
\* g_mount_spec_hash and g_mount_spec_equal: the entries that answer it
g_hash_table_lookup(table, objects, key) ==
  { e \in table :
      /\ g_mount_spec_hash(objects[e]) = g_mount_spec_hash(objects[key])
      /\ (e = key \/ g_mount_spec_equal(objects[e], objects[key])) }

\* the table once created
Table == IF unique_hash = NoTable THEN {} ELSE unique_hash

\* the thread that first owns the reference a spec is constructed with
Owner(s) == ((s - 1) % NumThreads) + 1

Init ==
  /\ heap \in [Addrs -> SpecContents]
  /\ freed = [s \in Addrs |-> 0]
  /\ dying = {}
  /\ unique_hash = NoTable
  /\ lock = 0
  /\ pc = [t \in Threads |-> "idle"]
  /\ arg = [t \in Threads |-> 0]
  /\ unique_spec = [t \in Threads |-> 0]
  /\ ret = [t \in Threads |-> 0]
  /\ held = [t \in Threads |-> [s \in Addrs |-> IF Owner(s) = t THEN 1 ELSE 0]]
  /\ a \in g_mount_spec_new(NULL)
  /\ b \in g_mount_spec_new(NULL)
  /\ call = NoCall

\* g_mount_spec_ref, had it left the count as it was
g_mount_spec_ref_none(objects, s) == objects

\* g_atomic_int_inc (&spec->ref_count)
g_mount_spec_ref(objects, s) == [objects EXCEPT ![s].ref_count = @ + 1]

\* thread t calls g_mount_spec_get_unique_for (s)
GetStart(t, s) ==
  /\ pc[t] = "idle"
  /\ held[t][s] > 0
  /\ \A x \in Addrs : heap[x].ref_count < MaxRef
  /\ pc' = [pc EXCEPT ![t] = "get_check"]
  /\ arg' = [arg EXCEPT ![t] = s]
  /\ ret' = [ret EXCEPT ![t] = 0]
  /\ UNCHANGED <<heap, freed, dying, unique_hash, lock, unique_spec, held, valVars, call>>

\* if (spec->is_unique) return g_mount_spec_ref (spec);
GetCheck(t) ==
  /\ pc[t] = "get_check"
  /\ IF heap[arg[t]].is_unique
       THEN /\ heap' = g_mount_spec_ref(heap, arg[t])
            /\ ret' = [ret EXCEPT ![t] = arg[t]]
            /\ held' = [held EXCEPT ![t][arg[t]] = @ + 1]
            /\ pc' = [pc EXCEPT ![t] = "idle"]
       ELSE /\ pc' = [pc EXCEPT ![t] = "get_lock"]
            /\ UNCHANGED <<heap, ret, held>>
  /\ UNCHANGED <<freed, dying, unique_hash, lock, arg, unique_spec, valVars, call>>

\* G_LOCK (unique_hash);
GetLock(t) ==
  /\ pc[t] = "get_lock"
  /\ lock = 0
  /\ lock' = t
  /\ pc' = [pc EXCEPT ![t] = "get_lookup"]
  /\ UNCHANGED <<heap, freed, dying, unique_hash, arg, unique_spec, ret, held, valVars, call>>

\* the table is created if need be; unique_spec = g_hash_table_lookup (...);
\* if (unique_spec == NULL) { spec->is_unique = TRUE; insert; unique_spec = spec; }
GetLookup(t) ==
  /\ pc[t] = "get_lookup"
  /\ LET found == g_hash_table_lookup(Table, heap, arg[t]) IN
     IF found = {}
       THEN /\ heap' = [heap EXCEPT ![arg[t]].is_unique = TRUE]
            /\ unique_hash' = Table \cup {arg[t]}
            /\ unique_spec' = [unique_spec EXCEPT ![t] = arg[t]]
       ELSE /\ \E e \in found : unique_spec' = [unique_spec EXCEPT ![t] = e]
            /\ unique_hash' = Table
            /\ heap' = heap
  /\ pc' = [pc EXCEPT ![t] = "get_ref"]
  /\ UNCHANGED <<freed, dying, lock, arg, ret, held, valVars, call>>

\* g_mount_spec_ref (unique_spec);
GetRef(t) ==
  /\ pc[t] = "get_ref"
  /\ heap' = g_mount_spec_ref(heap, unique_spec[t])
  /\ pc' = [pc EXCEPT ![t] = "get_unlock"]
  /\ UNCHANGED <<freed, dying, unique_hash, lock, arg, unique_spec, ret, held, valVars, call>>

\* G_UNLOCK (unique_hash); return unique_spec;
GetUnlock(t) ==
  /\ pc[t] = "get_unlock"
  /\ lock' = 0
  /\ ret' = [ret EXCEPT ![t] = unique_spec[t]]
  /\ held' = [held EXCEPT ![t][unique_spec[t]] = @ + 1]
  /\ pc' = [pc EXCEPT ![t] = "idle"]
  /\ UNCHANGED <<heap, freed, dying, unique_hash, arg, unique_spec, valVars, call>>

\* thread t calls g_mount_spec_ref (s)
Ref(t, s) ==
  /\ pc[t] = "idle"
  /\ held[t][s] > 0
  /\ heap[s].ref_count < MaxRef
  /\ heap' = g_mount_spec_ref(heap, s)
  /\ held' = [held EXCEPT ![t][s] = @ + 1]
  /\ UNCHANGED <<freed, dying, unique_hash, lock, pc, arg, unique_spec, ret, valVars, call>>

\* thread t calls g_mount_spec_unref (s) on a reference it owns:
\* if (g_atomic_int_dec_and_test (&spec->ref_count))
Unref(t, s) ==
  /\ pc[t] = "idle"
  /\ held[t][s] > 0
  /\ held' = [held EXCEPT ![t][s] = @ - 1]
  /\ heap' = [heap EXCEPT ![s].ref_count = @ - 1]
  /\ IF heap[s].ref_count - 1 = 0
       THEN /\ pc' = [pc EXCEPT ![t] = "unref_lock"]
            /\ arg' = [arg EXCEPT ![t] = s]
            /\ dying' = dying \cup {s}
       ELSE UNCHANGED <<pc, arg, dying>>
  /\ UNCHANGED <<freed, unique_hash, lock, unique_spec, ret, valVars, call>>

\* G_LOCK (unique_hash);
UnrefLock(t) ==
  /\ pc[t] = "unref_lock"
  /\ lock = 0
  /\ lock' = t
  /\ pc' = [pc EXCEPT ![t] = "unref_remove"]
  /\ UNCHANGED <<heap, freed, dying, unique_hash, arg, unique_spec, ret, held, valVars, call>>

\* if (unique_hash != NULL && spec->is_unique) g_hash_table_remove (unique_hash, spec);
UnrefRemove(t) ==
  /\ pc[t] = "unref_remove"
  /\ unique_hash' =
       IF unique_hash # NoTable /\ heap[arg[t]].is_unique
         THEN unique_hash \ g_hash_table_lookup(unique_hash, heap, arg[t])
       ELSE unique_hash
  /\ pc' = [pc EXCEPT ![t] = "unref_unlock"]
  /\ UNCHANGED <<heap, freed, dying, lock, arg, unique_spec, ret, held, valVars, call>>

\* G_UNLOCK (unique_hash);
UnrefUnlock(t) ==
  /\ pc[t] = "unref_unlock"
  /\ lock' = 0
  /\ pc' = [pc EXCEPT ![t] = "unref_free"]
  /\ UNCHANGED <<heap, freed, dying, unique_hash, arg, unique_spec, ret, held, valVars, call>>

\* the strings and the array are freed; g_free (spec);
UnrefFree(t) ==
  /\ pc[t] = "unref_free"
  /\ freed' = [freed EXCEPT ![arg[t]] = IF @ < 2 THEN @ + 1 ELSE @]
  /\ pc' = [pc EXCEPT ![t] = "idle"]
  /\ UNCHANGED <<heap, dying, unique_hash, lock, arg, unique_spec, ret, held, valVars, call>>

\* thread t passes a spec that is already freed to one of the three calls:
\* the call reads freed memory, which is undefined. It may go on as if the
\* memory still held the spec (the calls above), or do anything else, which
\* the thread's stopping here stands for
UseAfterFree(t, s) ==
  /\ pc[t] = "idle"
  /\ held[t][s] > 0
  /\ freed[s] > 0
  /\ pc' = [pc EXCEPT ![t] = "undefined"]
  /\ arg' = [arg EXCEPT ![t] = s]
  /\ UNCHANGED <<heap, freed, dying, unique_hash, lock, unique_spec, ret, held, valVars, call>>

GetStep(t) ==
  \/ GetCheck(t)
  \/ GetLock(t)
  \/ GetLookup(t)
  \/ GetRef(t)
  \/ GetUnlock(t)

UnrefStep(t) ==
  \/ UnrefLock(t)
  \/ UnrefRemove(t)
  \/ UnrefUnlock(t)
  \/ UnrefFree(t)

Next ==
  \E t \in Threads :
    \/ \E s \in Addrs : GetStart(t, s)
    \/ GetStep(t)
    \/ \E s \in Addrs : Ref(t, s)
    \/ \E s \in Addrs : Unref(t, s)
    \/ UnrefStep(t)
    \/ \E s \in Addrs : UseAfterFree(t, s)

Spec == Init /\ [][Next]_vars

\* an instance that is not destroyed and not being destroyed: its count has
\* never reached zero and g_free has not run on it
Live(s) == s \notin dying /\ freed[s] = 0

\* C2: in every reachable state there are no two distinct live instances
\* that are both canonical (is_unique) and equal to each other
C2_CanonicalIsUnique ==
  \A s1, s2 \in Addrs :
    (/\ s1 # s2
     /\ Live(s1) /\ Live(s2)
     /\ heap[s1].is_unique /\ heap[s2].is_unique)
      => ~ g_mount_spec_equal(heap[s1], heap[s2])

----------------------------------------------------------------------------
(* Two or more threads inside g_mount_spec_get_unique_for at once, and
   nothing else running: each thread passes its own spec or the shared one *)

\* the spec every thread may hold, which may be in the table already
Shared == NumSpecs

InitRace ==
  \E contents \in [Addrs -> SpecContents], canon \in BOOLEAN :
    /\ arg \in { f \in [Threads -> Addrs] : \A t \in Threads : f[t] \in {t, Shared} }
    /\ held = [t \in Threads |->
                [s \in Addrs |-> IF s = arg[t] \/ Owner(s) = t THEN 1 ELSE 0]]
    /\ heap = [s \in Addrs |->
                [contents[s] EXCEPT
                   !.ref_count = Cardinality({ t \in Threads : held[t][s] > 0 }),
                   !.is_unique = (canon /\ s = Shared)]]
    /\ unique_hash = IF canon THEN {Shared} ELSE NoTable
    /\ freed = [s \in Addrs |-> 0]
    /\ dying = {}
    /\ lock = 0
    /\ pc = [t \in Threads |-> "get_check"]
    /\ unique_spec = [t \in Threads |-> 0]
    /\ ret = [t \in Threads |-> 0]
    /\ a \in g_mount_spec_new(NULL)
    /\ b \in g_mount_spec_new(NULL)
    /\ call = NoCall

NextRace == \E t \in Threads : GetStep(t)

SpecRace == InitRace /\ [][NextRace]_vars

\* thread t has returned from its call
Returned_from(t) == pc[t] = "idle" /\ ret[t] # 0

\* C1: two threads that call g_mount_spec_get_unique_for concurrently on
\* two separately constructed specs with equal contents get, in every
\* interleaving of their steps, the same instance
C1_SameInstance ==
  \A t, u \in Threads :
    (/\ Returned_from(t) /\ Returned_from(u)
     /\ arg[t] # arg[u]
     /\ g_mount_spec_equal(heap[arg[t]], heap[arg[u]]))
      => ret[t] = ret[u]

\* threads 1 and 2 passed their own specs, neither canonical before, with
\* equal contents; both have returned, with one of the two specs
C1_Witness ==
  /\ Returned_from(1) /\ Returned_from(2)
  /\ arg[1] = 1 /\ arg[2] = 2
  /\ g_mount_spec_equal(heap[1], heap[2])
  /\ ret[1] \in {1, 2}
  /\ ret[2] = ret[1]

----------------------------------------------------------------------------
(* The same threads with one call at a time: a call starts only when no
   other call is in progress, and `call` keeps what the heap and the table
   were when the last g_mount_spec_get_unique_for started *)

\* no call is in progress
AllIdle == \A t \in Threads : pc[t] = "idle"

\* the specs in the table
Entries(table) == IF table = NoTable THEN {} ELSE table

\* thread t calls g_mount_spec_get_unique_for (s) while no call is in progress
SoloGetStart(t, s) ==
  /\ AllIdle
  /\ held[t][s] > 0
  /\ \A x \in Addrs : heap[x].ref_count < MaxRef
  /\ pc' = [pc EXCEPT ![t] = "get_check"]
  /\ arg' = [arg EXCEPT ![t] = s]
  /\ ret' = [ret EXCEPT ![t] = 0]
  /\ call' = [op |-> "g_mount_spec_get_unique_for", thread |-> t, spec |-> s,
              heap |-> heap, unique_hash |-> unique_hash]
  /\ UNCHANGED <<heap, freed, dying, unique_hash, lock, unique_spec, held, valVars>>

SoloRef(t, s) == AllIdle /\ Ref(t, s)

SoloUnref(t, s) == AllIdle /\ Unref(t, s)

NextSolo ==
  \E t \in Threads :
    \/ \E s \in Addrs : SoloGetStart(t, s)
    \/ GetStep(t)
    \/ \E s \in Addrs : SoloRef(t, s)
    \/ \E s \in Addrs : SoloUnref(t, s)
    \/ UnrefStep(t)

SpecSolo == Init /\ [][NextSolo]_vars

\* the entries of the table the call started with that are equal to its spec
Representatives ==
  { e \in Entries(call.unique_hash) : g_mount_spec_equal(call.heap[e], call.heap[call.spec]) }

\* the heap the call started with, the count of s raised by one
OneMoreRef(objects, s) == [objects EXCEPT ![s].ref_count = @ + 1]

\* what C12 says of the state a call returns in, by the state it started in
GetUniqueForEffect ==
  LET s == call.spec
      r == ret'[call.thread]
  IN IF call.heap[s].is_unique
       THEN /\ r = s
            /\ heap' = OneMoreRef(call.heap, s)
            /\ Entries(unique_hash') = Entries(call.unique_hash)
     ELSE IF Representatives = {}
       THEN /\ r = s
            /\ heap' = OneMoreRef([call.heap EXCEPT ![s].is_unique = TRUE], s)
            /\ Entries(unique_hash') = Entries(call.unique_hash) \cup {s}
     ELSE /\ r \in Representatives
          /\ r # s
          /\ heap' = OneMoreRef(call.heap, r)
          /\ Entries(unique_hash') = Entries(call.unique_hash)
          /\ ~heap'[s].is_unique
          /\ s \notin Entries(unique_hash')
          /\ heap'[s].ref_count = call.heap[s].ref_count

\* the step in which the call that `call` records returns
GetReturns ==
  /\ call.op = "g_mount_spec_get_unique_for"
  /\ pc[call.thread] \in {"get_check", "get_unlock"}
  /\ pc'[call.thread] = "idle"

\* C12: g_mount_spec_get_unique_for (spec) with no other call in progress
\* returns spec with its count raised by one and the table unchanged when
\* spec is canonical already; on a miss it sets is_unique, inserts spec and
\* returns it with its count raised by one; on a hit it returns the entry
\* found with that entry's count raised by one and leaves spec not
\* canonical, out of the table and with its count unchanged
C12_GetUniqueForEffect == [][GetReturns => GetUniqueForEffect]_vars

\* a call that hit has returned: the entry came back, its count one higher,
\* and spec is as it was
C12_Witness ==
  /\ call.op = "g_mount_spec_get_unique_for"
  /\ AllIdle
  /\ Representatives # {}
  /\ ~call.heap[call.spec].is_unique
  /\ ret[call.thread] \in Representatives
  /\ heap = OneMoreRef(call.heap, ret[call.thread])

----------------------------------------------------------------------------
(* The table and the counts, between the calls of concurrent threads *)

\* the instances that are canonical and referenced
CanonicalAndReferenced == { s \in Addrs : heap[s].is_unique /\ heap[s].ref_count >= 1 }

\* C13: whenever no g_mount_spec_get_unique_for and no g_mount_spec_unref
\* is in progress, the entries of the table are exactly the instances with
\* is_unique set and a count of at least 1, so that the table holds no entry
\* of a class whose canonical instance lost its last reference
C13_TableFollowsCount ==
  AllIdle => Entries(unique_hash) = CanonicalAndReferenced

----------------------------------------------------------------------------
(* g_mount_spec_copy, under SpecValue: `a` is the spec and `b` its copy *)

\* the step is a call of g_mount_spec_copy (a), whose result is b'
CopyReturns == call'.op = "g_mount_spec_copy"

\* C14, as stated: g_mount_spec_copy (S) returns, for every spec S that the
\* constructors and decoders give, a new instance with a count of 1 and
\* is_unique unset that has the items and the mount_prefix of S, and leaves
\* S and the table as they were
C14_CopyIsEqual ==
  [][CopyReturns
       => /\ b'.ref_count = 1
          /\ ~b'.is_unique
          /\ SameSpec(a, b')
          /\ a' = a
          /\ unique_hash' = unique_hash]_vars

----------------------------------------------------------------------------
(* The life of an instance under the concurrent threads of Spec, where a
   thread passes to g_mount_spec_unref only a reference it holds *)

\* C15: an instance is destroyed at most once, and only when no thread
\* holds a reference to it, so that what g_mount_spec_get_unique_for
\* returned stays alive until its caller releases it
C15_DestroyedOnceUnheld ==
  \A s \in Addrs :
    /\ freed[s] <= 1
    /\ freed[s] > 0 => \A t \in Threads : held[t][s] = 0

====
